---- MODULE Spec2Model ----
(***************************************************************************)
(* The authentication middleware `auth` (middleware/auth) of the media     *)
(* upload service, the process-wide issuer -> JWKS client cache it keeps,  *)
(* and the route handlers of index.ts that run behind it.                  *)
(*                                                                         *)
(* Node runs one piece of synchronous code at a time: `running` names the  *)
(* request whose code is on the stack (0 when the event loop is idle).     *)
(* A request gives the loop back only at `await client.getSigningKey`.     *)
(***************************************************************************)
EXTENDS Integers, Sequences, FiniteSets, TLC

\* ------------------------------------------------------------- bounds
NReq == 2          \* request slots that may be in flight together (SpecRace)

Reqs == 1..NReq
Single == {1}      \* Spec serves one request at a time

\* ------------------------------------------------------------- values
Absent == "absent"                       \* JavaScript undefined
Issuers == {"iss-a", "iss-b"}
IssValues == {Absent, ""} \cup Issuers
SubValues == {Absent, "", "alice"}
KidValues == {Absent, "k1", "k2"}
SigValues == {"KA", "KB", "bad"}         \* the key whose private half signed the token
XUserValues == {Absent, "mallory"}       \* x-user header as sent by the client

\* The key sets published at <issuer>/.well-known/jwks.json
JWKS == [i \in Issuers |->
           IF i = "iss-a" THEN ("k1" :> "KA" @@ "k2" :> "KA2")
                          ELSE ("k1" :> "KB")]

\* aud: string | string[] | undefined
AudAbsent == [kind |-> "absent", s |-> Absent, a |-> <<>>]
AudStr(x) == [kind |-> "string", s |-> x, a |-> <<>>]
AudArr(q) == [kind |-> "array", s |-> Absent, a |-> q]
AudValues == {AudAbsent, AudStr("media"), AudStr("other"),
              AudArr(<<"other", "media">>), AudArr(<<"other">>)}

\* A compact token string, described by what jwt.decode / jwt.verify find in it.
\*   shape "empty"       the empty string
\*         "garbage"     not a JWS (jws.decode returns null)
\*         "throws"      typ JWT with a payload that is no JSON (jws.decode throws)
\*         "nullpayload" a JWS whose payload parses to a falsy value
\*         "jwt"         header {kid?} and claims {iss?, sub?, aud?}
Blank(shape) == [shape |-> shape, kid |-> Absent, iss |-> Absent, sub |-> Absent,
                 aud |-> AudAbsent, sig |-> "bad"]
EmptyTok == Blank("empty")
JwtTokens == [shape : {"jwt"}, kid : KidValues, iss : IssValues, sub : SubValues,
              aud : AudValues, sig : SigValues]
Tokens == {Blank("garbage"), Blank("throws"), Blank("nullpayload")} \cup JwtTokens

\* The Authorization header: what precedes the token, and the token.
\*   word/ws: the scheme word and the number of whitespace characters after it
NoScheme == [word |-> "", ws |-> 0]
Schemes == {NoScheme} \cup [word : {"Bearer", "bearer", "Basic"}, ws : {0, 1}]
NoHeader == [present |-> FALSE, scheme |-> NoScheme, tok |-> EmptyTok]
Headers == {NoHeader} \cup
           [present : {TRUE}, scheme : Schemes, tok : Tokens \cup {EmptyTok}]

\* Inputs of the concurrent specification: well-formed bearer headers for
\* both issuers, and the missing header.
RaceHeaders == {NoHeader} \cup
    {h \in Headers : /\ h.present /\ h.scheme = [word |-> "Bearer", ws |-> 1]
                     /\ h.tok.shape = "jwt" /\ h.tok.kid = "k1"
                     /\ h.tok.iss \in Issuers /\ h.tok.sub = "alice"
                     /\ h.tok.aud = AudStr("media")
                     /\ h.tok.sig \in {"KA", "bad"}}

\* Inputs of the burst specification: well-formed bearer headers for one
\* issuer, with a kid its key set holds (k1) or does not hold (k2).
FloodHeaders ==
    {h \in Headers : /\ h.present /\ h.scheme = [word |-> "Bearer", ws |-> 1]
                     /\ h.tok.shape = "jwt" /\ h.tok.kid \in {"k1", "k2"}
                     /\ h.tok.iss = "iss-b" /\ h.tok.sub = "alice"
                     /\ h.tok.aud = AudStr("media")
                     /\ h.tok.sig \in {"KB", "bad"}}

VARIABLES
    running,      \* request whose synchronous code is executing, 0 if none
    pc,           \* per request: position in auth / the route handler
    hdr,          \* per request: req.headers['authorization'] as received
    xuserIn,      \* per request: x-user as the client sent it
    xuser,        \* per request: req.headers['x-user'] now
    token,        \* per request: local `token`
    decoded,      \* per request: local `decoded`
    client,       \* per request: local `client` (index into clients, 0 if none)
    key,          \* per request: local `publicKey`
    verified,     \* per request: `verifiedPayload` handed to the callback
    verifyIss,    \* per request: options.issuer given to jwt.verify
    responses,    \* per request: responses sent on res, in order
    nexts,        \* per request: number of calls of next()
    trace,        \* per request: steps of auth executed, in order
    objKeys,      \* per request: object keys built by the route handler
    clientCache,  \* issuer -> index into clients, 0 if no entry
    clients,      \* every jwksClient constructed, by the issuer of its jwksUri
    keyCache,     \* per constructed client: the kids whose key it has cached
    used,         \* per constructed client: fetches its rate limiter has let
                  \* through in the current minute
    fetch,        \* per request: how its getSigningKey call is served
                  \*   "none" not called, "cached" from the client's cache,
                  \*   "limited" refused by the client's rate limiter,
                  \*   "up" / "down" / "silent": a remote fetch that is answered,
                  \*   fails, or is never answered
    seenIssuers,  \* issuers of the requests that have passed PreCheck
    files,        \* per request: mime types of the uploaded main file and
                  \* thumbnail (Absent if not sent)
    temp,         \* per request: its temporary files multer left in uploads/
    stored        \* per request: objects written to storage, key and ContentType

vars == <<running, pc, hdr, xuserIn, xuser, token, decoded, client, key, verified,
          verifyIss, responses, nexts, trace, objKeys, clientCache, clients,
          keyCache, used, fetch, seenIssuers, files, temp, stored>>

\* ------------------------------------------------------------- helpers
Undefined == [def |-> FALSE, pre |-> NoScheme, tok |-> EmptyTok]
NullDecoded == [res |-> "null", kid |-> Absent,
                payload |-> [iss |-> Absent, sub |-> Absent, aud |-> AudAbsent]]
NoPayload == [iss |-> Absent, sub |-> Absent, aud |-> AudAbsent]

\* !x for the string-or-undefined values of the model
Falsy(x) == x = Absent \/ x = ""

Lower(word) == IF word = "Bearer" THEN "bearer" ELSE word

\* /^Bearer\s+/i matches the start of the header
MatchesBearer(scheme) == Lower(scheme.word) = "bearer" /\ scheme.ws >= 1

\* authHeader?.toString().replace(/^Bearer\s+/i, '')
StripBearer(h) ==
    IF ~h.present THEN Undefined
    ELSE IF MatchesBearer(h.scheme)
         THEN [def |-> TRUE, pre |-> NoScheme, tok |-> h.tok]
         ELSE [def |-> TRUE, pre |-> h.scheme, tok |-> h.tok]

\* !token
NoToken(t) == ~t.def \/ (t.pre = NoScheme /\ t.tok = EmptyTok)

\* jwt.decode(token, { complete: true })
JwtDecode(t) ==
    IF t.pre # NoScheme THEN NullDecoded
    ELSE CASE t.tok.shape = "jwt" ->
                [res |-> "ok", kid |-> t.tok.kid,
                 payload |-> [iss |-> t.tok.iss, sub |-> t.tok.sub, aud |-> t.tok.aud]]
           [] t.tok.shape = "nullpayload" ->
                [res |-> "nopayload", kid |-> Absent, payload |-> NoPayload]
           [] t.tok.shape = "throws" ->
                [res |-> "throw", kid |-> Absent, payload |-> NoPayload]
           [] OTHER -> NullDecoded

InvalidFormatNever(d) == FALSE

\* !decoded || !decoded.header || !decoded.payload
InvalidFormat(d) == d.res # "ok"

PreCheckIssOnly(p) == Falsy(p.iss)

PreCheckAbsentOnly(p) == p.iss = Absent \/ p.sub = Absent

\* !payload.iss || !payload.sub
PreCheckFails(p) == Falsy(p.iss) \/ Falsy(p.sub)

CacheGetMiss(cache, issuer) == 0

\* clientCache.get(issuer)
CacheGet(cache, issuer) == cache[issuer]

CachePutNothing(cache, issuer, c) == cache

\* clientCache.set(issuer, client)
CachePut(cache, issuer, c) == [cache EXCEPT ![issuer] = c]

\* jwksRequestsPerMinute: 10
jwksRequestsPerMinute == 10

KeyCachedNever(cached, kid) == FALSE

\* cache: true -- the client keeps the signing keys it has resolved, by kid
KeyCached(cached, kid) == kid # Absent /\ kid \in cached

\* rateLimit: true -- the client refuses a fetch beyond its allowance
RateLimited(n) == n >= jwksRequestsPerMinute

FetchTimesOutNever(f) == FALSE

\* the client's request timeout ends a fetch that is never answered
FetchTimesOut(f) == f = "silent"

\* client.getSigningKey(kid) once the key set has been fetched: the key, or
\* "error" (SigningKeyNotFoundError)
FindKeyAnyIssuer(issuer, kid) ==
    IF kid \in DOMAIN JWKS["iss-a"] THEN JWKS["iss-a"][kid] ELSE "error"

FindKey(issuer, kid) ==
    LET keys == JWKS[issuer] IN
    IF kid = Absent
    THEN IF Cardinality(DOMAIN keys) > 1 THEN "error"
         ELSE keys[CHOOSE k \in DOMAIN keys : TRUE]
    ELSE IF kid \in DOMAIN keys THEN keys[kid] ELSE "error"

JwtVerifyNoSignature(t, publicKey, issuer) ==
    [err |-> FALSE, payload |-> [iss |-> t.tok.iss, sub |-> t.tok.sub, aud |-> t.tok.aud]]

\* jwt.verify(token, publicKey, { issuer }, callback): what the callback gets
JwtVerify(t, publicKey, issuer) ==
    IF t.tok.sig = publicKey /\ t.tok.iss = issuer
    THEN [err |-> FALSE,
          payload |-> [iss |-> t.tok.iss, sub |-> t.tok.sub, aud |-> t.tok.aud]]
    ELSE [err |-> TRUE, payload |-> NoPayload]

AudiencesNoArray(aud) == <<aud.s>>

\* Array.isArray(aud) ? aud : [aud]
Audiences(aud) == IF aud.kind = "array" THEN aud.a ELSE <<aud.s>>

\* audiences.includes('media')
IncludesMedia(q) == \E i \in 1..Len(q) : q[i] = "media"

AttachUserKeep(old, sub) == IF old = Absent THEN sub ELSE old

\* req.headers["x-user"] = payload.sub
AttachUser(old, sub) == sub

Reply(status, body, by) == [status |-> status, body |-> body, by |-> by]

CatchSwallow(rs) == rs

CatchWith500(rs) == Append(rs, Reply(500, "Internal Server Error", "auth"))

\* catch (err) { return res.status(401).send('Authentication error') }
CatchBlock(rs) == Append(rs, Reply(401, "Authentication error", "auth"))

\* getExtensionFromMime
getExtensionFromMime(mimetype) ==
    CASE mimetype = "image/png" -> ".png"
      [] mimetype = "application/pdf" -> ".pdf"
      [] OTHER -> ".bin"

allowedMimeTypes == {"image/png", "application/pdf"}
MimeValues == {"image/png", "application/pdf", "text/html"}
NoFiles == [main |-> Absent, thumb |-> Absent]

\* allowedMimeTypes.includes(file.mimetype)
TypeAllowed(mimetype) == mimetype \in allowedMimeTypes

\* thumbFile && allowedMimeTypes.includes(thumbFile.mimetype)
ThumbAllowed(thumb) == thumb # Absent /\ thumb \in allowedMimeTypes

\* the temporary files multer wrote for the request
Received(f) == (IF f.main # Absent THEN {"main"} ELSE {})
               \cup (IF f.thumb # Absent THEN {"thumb"} ELSE {})

\* ------------------------------------------------------------- Init
Init ==
    /\ running = 0
    /\ pc = [r \in Reqs |-> "idle"]
    /\ hdr = [r \in Reqs |-> NoHeader]
    /\ xuserIn = [r \in Reqs |-> Absent]
    /\ xuser = [r \in Reqs |-> Absent]
    /\ token = [r \in Reqs |-> Undefined]
    /\ decoded = [r \in Reqs |-> NullDecoded]
    /\ client = [r \in Reqs |-> 0]
    /\ key = [r \in Reqs |-> Absent]
    /\ verified = [r \in Reqs |-> NoPayload]
    /\ verifyIss = [r \in Reqs |-> Absent]
    /\ responses = [r \in Reqs |-> <<>>]
    /\ nexts = [r \in Reqs |-> 0]
    /\ trace = [r \in Reqs |-> <<>>]
    /\ objKeys = [r \in Reqs |-> {}]
    /\ clientCache = [i \in Issuers |-> 0]
    /\ clients = <<>>
    /\ keyCache = <<>>
    /\ used = <<>>
    /\ fetch = [r \in Reqs |-> "none"]
    /\ seenIssuers = {}
    /\ files = [r \in Reqs |-> NoFiles]
    /\ temp = [r \in Reqs |-> {}]
    /\ stored = [r \in Reqs |-> {}]

\* ------------------------------------------------------------- auth
\* Sending a response that ends the request's synchronous code.
Reject(r, body) ==
    /\ responses' = [responses EXCEPT ![r] = Append(@, Reply(401, body, "auth"))]
    /\ pc' = [pc EXCEPT ![r] = "done"]
    /\ running' = 0

\* Express hands a new request to auth; its headers are drawn from the given sets.
Receive(r, headers, xusers) ==
    /\ running = 0
    /\ pc[r] = "idle"
    /\ \E h \in headers, xu \in xusers :
          /\ hdr' = [hdr EXCEPT ![r] = h]
          /\ xuserIn' = [xuserIn EXCEPT ![r] = xu]
          /\ xuser' = [xuser EXCEPT ![r] = xu]
    /\ pc' = [pc EXCEPT ![r] = "Extract"]
    /\ running' = r
    /\ UNCHANGED <<token, decoded, client, key, verified, verifyIss, responses,
                   nexts, trace, objKeys, clientCache, clients, keyCache, used, fetch, seenIssuers, files, temp, stored>>

\* STEP 1
ExtractToken(r) ==
    /\ running = r
    /\ pc[r] = "Extract"
    /\ token' = [token EXCEPT ![r] = StripBearer(hdr[r])]
    /\ trace' = [trace EXCEPT ![r] = Append(@, "Extract")]
    /\ IF NoToken(StripBearer(hdr[r]))
       THEN Reject(r, "Authentication error: No token provided")
       ELSE /\ pc' = [pc EXCEPT ![r] = "Decode"]
            /\ UNCHANGED <<running, responses>>
    /\ UNCHANGED <<hdr, xuserIn, xuser, decoded, client, key, verified, verifyIss,
                   nexts, objKeys, clientCache, clients, keyCache, used, fetch, seenIssuers, files, temp, stored>>

\* STEP 2; a throw of jwt.decode lands in the catch block
Decode(r) ==
    /\ running = r
    /\ pc[r] = "Decode"
    /\ trace' = [trace EXCEPT ![r] = Append(@, "Decode")]
    /\ LET d == JwtDecode(token[r]) IN
       IF d.res = "throw"
       THEN /\ responses' = [responses EXCEPT ![r] = CatchBlock(@)]
            /\ pc' = [pc EXCEPT ![r] = "done"]
            /\ running' = 0
            /\ UNCHANGED decoded
       ELSE /\ decoded' = [decoded EXCEPT ![r] = d]
            /\ IF InvalidFormat(d)
               THEN Reject(r, "Access Denied: Invalid token format")
               ELSE /\ pc' = [pc EXCEPT ![r] = "PreCheck"]
                    /\ UNCHANGED <<running, responses>>
    /\ UNCHANGED <<hdr, xuserIn, xuser, token, client, key, verified, verifyIss,
                   nexts, objKeys, clientCache, clients, keyCache, used, fetch, seenIssuers, files, temp, stored>>

\* STEP 3
PreCheck(r) ==
    /\ running = r
    /\ pc[r] = "PreCheck"
    /\ trace' = [trace EXCEPT ![r] = Append(@, "PreCheck")]
    /\ IF PreCheckFails(decoded[r].payload)
       THEN /\ Reject(r, "Access Denied: Token missing issuer or subject")
            /\ UNCHANGED seenIssuers
       ELSE /\ pc' = [pc EXCEPT ![r] = "GetClient"]
            /\ seenIssuers' = seenIssuers \cup {decoded[r].payload.iss}
            /\ UNCHANGED <<running, responses>>
    /\ UNCHANGED <<hdr, xuserIn, xuser, token, decoded, client, key, verified,
                   verifyIss, nexts, objKeys, clientCache, clients, keyCache, used,
                   fetch, files, temp, stored>>

\* clientCache.get(issuer) || jwksClient({...}); clientCache.set(issuer, client)
\* A new client starts with an empty key cache and a full allowance.
GetClient(r) ==
    /\ running = r
    /\ pc[r] = "GetClient"
    /\ trace' = [trace EXCEPT ![r] = Append(@, "GetClient")]
    /\ LET issuer == decoded[r].payload.iss
           hit == CacheGet(clientCache, issuer)
           c == IF hit # 0 THEN hit ELSE Len(clients) + 1
       IN /\ clients' = IF hit # 0 THEN clients ELSE Append(clients, issuer)
          /\ keyCache' = IF hit # 0 THEN keyCache ELSE Append(keyCache, {})
          /\ used' = IF hit # 0 THEN used ELSE Append(used, 0)
          /\ clientCache' = CachePut(clientCache, issuer, c)
          /\ client' = [client EXCEPT ![r] = c]
    /\ pc' = [pc EXCEPT ![r] = "GetSigningKey"]
    /\ UNCHANGED <<running, hdr, xuserIn, xuser, token, decoded, key, verified,
                   verifyIss, responses, nexts, objKeys, fetch, seenIssuers, files, temp,
                   stored>>

\* await client.getSigningKey(kid!): the call suspends auth. The client
\* serves the key from its cache, or its rate limiter refuses the fetch, or it
\* fetches the key set. burst: the requests arrive within one minute, so the
\* limiter's allowance is not refilled between them.
CallGetSigningKey(r, burst) ==
    /\ running = r
    /\ pc[r] = "GetSigningKey"
    /\ trace' = [trace EXCEPT ![r] = Append(@, "ResolveKey")]
    /\ LET c == client[r] IN
       IF KeyCached(keyCache[c], decoded[r].kid)
       THEN /\ fetch' = [fetch EXCEPT ![r] = "cached"]
            /\ UNCHANGED used
       ELSE IF burst /\ RateLimited(used[c])
       THEN /\ fetch' = [fetch EXCEPT ![r] = "limited"]
            /\ UNCHANGED used
       ELSE /\ \E f \in {"up", "down", "silent"} : fetch' = [fetch EXCEPT ![r] = f]
            /\ used' = IF burst THEN [used EXCEPT ![c] = @ + 1] ELSE used
    /\ pc' = [pc EXCEPT ![r] = "AwaitKey"]
    /\ running' = 0
    /\ UNCHANGED <<hdr, xuserIn, xuser, token, decoded, client, key, verified,
                   verifyIss, responses, nexts, objKeys, clientCache, clients,
                   keyCache, seenIssuers, files, temp, stored>>

\* The promise is fulfilled: auth resumes with key.getPublicKey()
KeyResolved(r) ==
    /\ running = 0
    /\ pc[r] = "AwaitKey"
    /\ fetch[r] \in {"cached", "up"}
    /\ FindKey(clients[client[r]], decoded[r].kid) # "error"
    /\ key' = [key EXCEPT ![r] = FindKey(clients[client[r]], decoded[r].kid)]
    /\ keyCache' = IF fetch[r] = "up" /\ decoded[r].kid # Absent
                   THEN [keyCache EXCEPT ![client[r]] = @ \cup {decoded[r].kid}]
                   ELSE keyCache
    /\ pc' = [pc EXCEPT ![r] = "Verify"]
    /\ running' = r
    /\ UNCHANGED <<hdr, xuserIn, xuser, token, decoded, client, verified, verifyIss,
                   responses, nexts, trace, objKeys, clientCache, clients, used,
                   fetch, seenIssuers, files, temp, stored>>

\* The await throws into the catch block.
Thrown(r) ==
    /\ responses' = [responses EXCEPT ![r] = CatchBlock(@)]
    /\ pc' = [pc EXCEPT ![r] = "done"]
    /\ UNCHANGED <<running, hdr, xuserIn, xuser, token, decoded, client, key, verified,
                   verifyIss, nexts, trace, objKeys, clientCache, clients, keyCache,
                   used, fetch, seenIssuers, files, temp, stored>>

\* The promise is rejected: the fetch failed (key set unreachable or malformed),
\* the limiter refused it, or the key set holds no matching key
KeyRejected(r) ==
    /\ running = 0
    /\ pc[r] = "AwaitKey"
    /\ \/ fetch[r] \in {"down", "limited"}
       \/ /\ fetch[r] \in {"cached", "up"}
          /\ FindKey(clients[client[r]], decoded[r].kid) = "error"
    /\ Thrown(r)

\* The promise is rejected by the client's request timeout: the key-set
\* endpoint never answered
KeyTimeout(r) ==
    /\ running = 0
    /\ pc[r] = "AwaitKey"
    /\ FetchTimesOut(fetch[r])
    /\ Thrown(r)

\* A minute passes: the limiter of client c has its full allowance again
Refill(c) ==
    /\ used[c] > 0
    /\ used' = [used EXCEPT ![c] = 0]
    /\ UNCHANGED <<running, pc, hdr, xuserIn, xuser, token, decoded, client, key,
                   verified, verifyIss, responses, nexts, trace, objKeys, clientCache,
                   clients, keyCache, fetch, seenIssuers, files, temp, stored>>

\* STEP 4: jwt.verify calls the callback synchronously, once
Verify(r) ==
    /\ running = r
    /\ pc[r] = "Verify"
    /\ trace' = [trace EXCEPT ![r] = Append(@, "VerifySignature")]
    /\ LET issuer == decoded[r].payload.iss
           v == JwtVerify(token[r], key[r], issuer)
       IN /\ verifyIss' = [verifyIss EXCEPT ![r] = issuer]
          /\ IF v.err
             THEN /\ Reject(r, "Access Denied: Invalid token")
                  /\ UNCHANGED verified
             ELSE /\ verified' = [verified EXCEPT ![r] = v.payload]
                  /\ pc' = [pc EXCEPT ![r] = "CheckAudience"]
                  /\ UNCHANGED <<running, responses>>
    /\ UNCHANGED <<hdr, xuserIn, xuser, token, decoded, client, key, nexts, objKeys,
                   clientCache, clients, keyCache, used, fetch, seenIssuers, files, temp, stored>>

\* STEP 5
CheckAudience(r) ==
    /\ running = r
    /\ pc[r] = "CheckAudience"
    /\ trace' = [trace EXCEPT ![r] = Append(@, "CheckAudience")]
    /\ IF ~IncludesMedia(Audiences(verified[r].aud))
       THEN Reject(r, "Access Denied: Invalid audience")
       ELSE /\ pc' = [pc EXCEPT ![r] = "Accept"]
            /\ UNCHANGED <<running, responses>>
    /\ UNCHANGED <<hdr, xuserIn, xuser, token, decoded, client, key, verified,
                   verifyIss, nexts, objKeys, clientCache, clients, keyCache, used, fetch, seenIssuers, files, temp, stored>>

\* req.headers["x-user"] = payload.sub; next()
Accept(r) ==
    /\ running = r
    /\ pc[r] = "Accept"
    /\ trace' = [trace EXCEPT ![r] = Append(@, "Accept")]
    /\ xuser' = [xuser EXCEPT ![r] = AttachUser(@, decoded[r].payload.sub)]
    /\ nexts' = [nexts EXCEPT ![r] = @ + 1]
    /\ pc' = [pc EXCEPT ![r] = "Route"]
    /\ UNCHANGED <<running, hdr, xuserIn, token, decoded, client, key, verified,
                   verifyIss, responses, objKeys, clientCache, clients, keyCache, used, fetch, seenIssuers, files, temp, stored>>

\* ------------------------------------------------------------- routes
Respond(r, status, body) ==
    /\ responses' = [responses EXCEPT ![r] = Append(@, Reply(status, body, "route"))]
    /\ pc' = [pc EXCEPT ![r] = "done"]
    /\ running' = 0

\* app.get('/upload/health')
Health(r) ==
    /\ running = r
    /\ pc[r] = "Route"
    /\ Respond(r, 200, "OK")
    /\ UNCHANGED <<hdr, xuserIn, xuser, token, decoded, client, key, verified,
                   verifyIss, nexts, trace, objKeys, clientCache, clients, keyCache, used, fetch, seenIssuers, files, temp, stored>>

\* app.post('/upload/media') up to its first await: main is the mime type of
\* the main file (Absent if none was sent), thumb that of the thumbnail
UploadMedia(r, main, thumb) ==
    /\ running = r
    /\ pc[r] = "Route"
    /\ files' = [files EXCEPT ![r] = [main |-> main, thumb |-> thumb]]
    /\ temp' = [temp EXCEPT ![r] = Received([main |-> main, thumb |-> thumb])]
    /\ IF main = Absent
       THEN /\ Respond(r, 400, "Missing file")
            /\ UNCHANGED objKeys
       ELSE LET mainKey == <<xuser[r], "/", "uuid", getExtensionFromMime(main)>>
                thumbKey == <<xuser[r], "/thumbs/", "uuid", getExtensionFromMime(thumb)>>
            IN /\ objKeys' = [objKeys EXCEPT ![r] =
                                {mainKey} \cup (IF thumb # Absent THEN {thumbKey} ELSE {})]
               /\ pc' = [pc EXCEPT ![r] = "MediaMain"]
               /\ running' = 0
               /\ UNCHANGED responses
    /\ UNCHANGED <<hdr, xuserIn, xuser, token, decoded, client, key, verified,
                   verifyIss, nexts, trace, clientCache, clients, keyCache, used,
                   fetch, seenIssuers, stored>>

\* s3.send of the main file succeeded; safeUnlink(mainFile.path)
MediaMainStored(r) ==
    /\ running = 0
    /\ pc[r] = "MediaMain"
    /\ stored' = [stored EXCEPT ![r] =
                    @ \cup {[key |-> <<xuser[r], "/", "uuid",
                                       getExtensionFromMime(files[r].main)>>,
                             type |-> files[r].main]}]
    /\ temp' = [temp EXCEPT ![r] = @ \ {"main"}]
    /\ pc' = [pc EXCEPT ![r] = IF ThumbAllowed(files[r].thumb) THEN "MediaThumb"
                                                               ELSE "MediaUrl"]
    /\ UNCHANGED <<running, hdr, xuserIn, xuser, token, decoded, client, key, verified,
                   verifyIss, responses, nexts, trace, objKeys, clientCache, clients,
                   keyCache, used, fetch, seenIssuers, files>>

\* s3.send of the thumbnail succeeded; safeUnlink(thumbFile.path)
MediaThumbStored(r) ==
    /\ running = 0
    /\ pc[r] = "MediaThumb"
    /\ stored' = [stored EXCEPT ![r] =
                    @ \cup {[key |-> <<xuser[r], "/thumbs/", "uuid",
                                       getExtensionFromMime(files[r].thumb)>>,
                             type |-> files[r].thumb]}]
    /\ temp' = [temp EXCEPT ![r] = @ \ {"thumb"}]
    /\ pc' = [pc EXCEPT ![r] = "MediaUrl"]
    /\ UNCHANGED <<running, hdr, xuserIn, xuser, token, decoded, client, key, verified,
                   verifyIss, responses, nexts, trace, objKeys, clientCache, clients,
                   keyCache, used, fetch, seenIssuers, files>>

\* generatePublicSignedUrl succeeded; res.json({ success: true, ... })
MediaSigned(r) ==
    /\ running = 0
    /\ pc[r] = "MediaUrl"
    /\ Respond(r, 200, "success")
    /\ UNCHANGED <<hdr, xuserIn, xuser, token, decoded, client, key, verified,
                   verifyIss, nexts, trace, objKeys, clientCache, clients, keyCache,
                   used, fetch, seenIssuers, files, temp, stored>>

\* an await of the handler throws: catch, safeUnlink of both files, 500
MediaFailed(r) ==
    /\ running = 0
    /\ pc[r] \in {"MediaMain", "MediaThumb", "MediaUrl"}
    /\ temp' = [temp EXCEPT ![r] = @ \ {"main", "thumb"}]
    /\ Respond(r, 500, "Upload failed")
    /\ UNCHANGED <<hdr, xuserIn, xuser, token, decoded, client, key, verified,
                   verifyIss, nexts, trace, objKeys, clientCache, clients, keyCache,
                   used, fetch, seenIssuers, files, stored>>

\* app.post('/upload/profile') and handleUpload up to s3.send
UploadProfile(r, file) ==
    /\ running = r
    /\ pc[r] = "Route"
    /\ files' = [files EXCEPT ![r] = [main |-> file, thumb |-> Absent]]
    /\ IF Falsy(xuser[r])
       THEN /\ Respond(r, 400, "Missing x-user header")
            /\ temp' = [temp EXCEPT ![r] = Received([main |-> file, thumb |-> Absent])]
            /\ UNCHANGED objKeys
       ELSE IF file = Absent
       THEN /\ Respond(r, 400, "No file uploaded")
            /\ UNCHANGED <<objKeys, temp>>
       ELSE IF ~TypeAllowed(file)
       THEN /\ Respond(r, 400, "Unsupported file type")
            /\ temp' = [temp EXCEPT ![r] = {"main"} \ {"main"}]
            /\ UNCHANGED objKeys
       ELSE /\ objKeys' = [objKeys EXCEPT ![r] = {<<xuser[r], getExtensionFromMime(file)>>}]
            /\ temp' = [temp EXCEPT ![r] = {"main"}]
            /\ pc' = [pc EXCEPT ![r] = "ProfilePut"]
            /\ running' = 0
            /\ UNCHANGED responses
    /\ UNCHANGED <<hdr, xuserIn, xuser, token, decoded, client, key, verified,
                   verifyIss, nexts, trace, clientCache, clients, keyCache, used,
                   fetch, seenIssuers, stored>>

\* handleUpload: s3.send succeeded; safeUnlink(file.path); res.json
ProfileStored(r) ==
    /\ running = 0
    /\ pc[r] = "ProfilePut"
    /\ stored' = [stored EXCEPT ![r] =
                    @ \cup {[key |-> <<xuser[r], getExtensionFromMime(files[r].main)>>,
                             type |-> files[r].main]}]
    /\ temp' = [temp EXCEPT ![r] = @ \ {"main"}]
    /\ Respond(r, 200, "media_url")
    /\ UNCHANGED <<hdr, xuserIn, xuser, token, decoded, client, key, verified,
                   verifyIss, nexts, trace, objKeys, clientCache, clients, keyCache,
                   used, fetch, seenIssuers, files>>

\* handleUpload: s3.send threw; safeUnlink(file.path); 500
ProfileFailed(r) ==
    /\ running = 0
    /\ pc[r] = "ProfilePut"
    /\ temp' = [temp EXCEPT ![r] = @ \ {"main"}]
    /\ Respond(r, 500, "Upload failed")
    /\ UNCHANGED <<hdr, xuserIn, xuser, token, decoded, client, key, verified,
                   verifyIss, nexts, trace, objKeys, clientCache, clients, keyCache,
                   used, fetch, seenIssuers, files, stored>>

\* The response has gone out and the request object is dropped; the slot
\* takes the next request.
Release(r) ==
    /\ running = 0
    /\ pc[r] = "done"
    /\ pc' = [pc EXCEPT ![r] = "idle"]
    /\ hdr' = [hdr EXCEPT ![r] = NoHeader]
    /\ xuserIn' = [xuserIn EXCEPT ![r] = Absent]
    /\ xuser' = [xuser EXCEPT ![r] = Absent]
    /\ token' = [token EXCEPT ![r] = Undefined]
    /\ decoded' = [decoded EXCEPT ![r] = NullDecoded]
    /\ client' = [client EXCEPT ![r] = 0]
    /\ key' = [key EXCEPT ![r] = Absent]
    /\ verified' = [verified EXCEPT ![r] = NoPayload]
    /\ verifyIss' = [verifyIss EXCEPT ![r] = Absent]
    /\ responses' = [responses EXCEPT ![r] = <<>>]
    /\ nexts' = [nexts EXCEPT ![r] = 0]
    /\ trace' = [trace EXCEPT ![r] = <<>>]
    /\ objKeys' = [objKeys EXCEPT ![r] = {}]
    /\ fetch' = [fetch EXCEPT ![r] = "none"]
    /\ files' = [files EXCEPT ![r] = NoFiles]
    /\ temp' = [temp EXCEPT ![r] = {}]
    /\ stored' = [stored EXCEPT ![r] = {}]
    /\ UNCHANGED <<running, clientCache, clients, keyCache, used, seenIssuers>>

\* ------------------------------------------------------------- specifications
AuthStep(r, burst) ==
    \/ ExtractToken(r)
    \/ Decode(r)
    \/ PreCheck(r)
    \/ GetClient(r)
    \/ CallGetSigningKey(r, burst)
    \/ KeyResolved(r)
    \/ KeyRejected(r)
    \/ KeyTimeout(r)
    \/ Verify(r)
    \/ CheckAudience(r)
    \/ Accept(r)

UploadStep(r) ==
    \/ \E main \in MimeValues \cup {Absent}, thumb \in MimeValues \cup {Absent} :
          UploadMedia(r, main, thumb)
    \/ MediaMainStored(r)
    \/ MediaThumbStored(r)
    \/ MediaSigned(r)
    \/ MediaFailed(r)
    \/ \E file \in MimeValues \cup {Absent} : UploadProfile(r, file)
    \/ ProfileStored(r)
    \/ ProfileFailed(r)

\* One request at a time, every header the model knows, every route; the
\* requests are spread over time.
Next ==
    \E r \in Single :
        \/ Receive(r, Headers, XUserValues)
        \/ AuthStep(r, FALSE)
        \/ Health(r)
        \/ UploadStep(r)
        \/ Release(r)

Spec == Init /\ [][Next]_vars

\* NReq requests in flight together: well-formed bearer headers for both
\* issuers, sent to /upload/health.
NextRace ==
    \E r \in Reqs :
        \/ Receive(r, RaceHeaders, {Absent})
        \/ AuthStep(r, FALSE)
        \/ Health(r)
        \/ Release(r)

SpecRace == Init /\ [][NextRace]_vars

\* One request at a time with well-formed bearer headers, under Node's
\* scheduling: the event loop runs every callback that is ready, a settled
\* promise resumes its awaiter, and the timer of a pending fetch fires.
LiveStep == \E r \in Single : AuthStep(r, FALSE) \/ Health(r)

NextLive ==
    \E r \in Single :
        \/ Receive(r, RaceHeaders, {Absent})
        \/ AuthStep(r, FALSE)
        \/ Health(r)
        \/ Release(r)

SpecLive == Init /\ [][NextLive]_vars /\ WF_vars(LiveStep)

\* One request at a time, arriving within the limiter's minute (burst) or
\* after it has passed (Refill).
NextFlood ==
    \/ \E r \in Single :
          \/ Receive(r, FloodHeaders, {Absent})
          \/ AuthStep(r, TRUE)
          \/ Health(r)
          \/ Release(r)
    \/ \E c \in 1..Len(clients) : Refill(c)

SpecFlood == Init /\ [][NextFlood]_vars

\* ------------------------------------------------------------- properties
InTrace(r, step) == \E i \in 1..Len(trace[r]) : trace[r][i] = step
ByAuth(m) == m.by = "auth"
ByRoute(m) == m.by = "route"
AuthReplies(r) == SelectSeq(responses[r], ByAuth)
RouteReplies(r) == SelectSeq(responses[r], ByRoute)
\* auth has returned its decision for r
RoutePcs == {"Route", "MediaMain", "MediaThumb", "MediaUrl", "ProfilePut"}
Decided(r) == pc[r] \in RoutePcs \cup {"done"}
Rejection(body) == <<Reply(401, body, "auth")>>
\* the audience claim as a set of strings
AudSet(aud) ==
    CASE aud.kind = "array" -> {aud.a[i] : i \in 1..Len(aud.a)}
      [] aud.kind = "string" -> {aud.s}
      [] OTHER -> {}
KeysOf(issuer) == {JWKS[issuer][k] : k \in DOMAIN JWKS[issuer]}
\* the header is "Bearer <token>", prefix in any case
BearerPrefix(h) == h.scheme.word \in {"Bearer", "bearer"} /\ h.scheme.ws > 0
IsBearerHeader(h) == h.present /\ BearerPrefix(h) /\ h.tok # EmptyTok

\* C1: next() is called for a request only if its token was extracted and
\* decoded, carries issuer and subject, a key of that issuer's key set was
\* resolved, the token's signature verifies against that key, and the verified
\* audience contains 'media'; no route handler answers a request that did not
\* pass.
C1_GateRequiresEveryCheck ==
    \A r \in Reqs :
        /\ nexts[r] > 0 =>
              LET t == hdr[r].tok IN
              /\ hdr[r].present /\ token[r].def /\ token[r].tok = t
              /\ t.shape = "jwt" /\ decoded[r].res = "ok"
              /\ t.iss \in Issuers /\ t.sub \notin {Absent, ""}
              /\ key[r] \in KeysOf(t.iss)
              /\ t.sig = key[r]
              /\ verified[r].aud = t.aud
              /\ "media" \in AudSet(verified[r].aud)
        /\ Len(RouteReplies(r)) > 0 => nexts[r] > 0

C1_Witness == \E r \in Reqs : nexts[r] > 0 /\ pc[r] = "done" /\ Len(RouteReplies(r)) = 1

\* C2: every invocation of auth ends in exactly one outcome, one call of
\* next() or one 401 response: never both, never two, and never none once auth
\* has returned, on the callback paths and on the catch paths alike.
C2_ExactlyOneOutcome ==
    \A r \in Reqs :
        /\ Len(AuthReplies(r)) + nexts[r] <= 1
        /\ Decided(r) => Len(AuthReplies(r)) + nexts[r] = 1
        /\ \A i \in 1..Len(AuthReplies(r)) : AuthReplies(r)[i].status = 401

C2_Witness ==
    \E r \in Reqs : /\ pc[r] = "done" /\ InTrace(r, "ResolveKey") /\ key[r] = Absent
                    /\ responses[r] = Rejection("Authentication error")

\* C3: a request without an Authorization header, or whose header is not
\* "Bearer <token>", gets the no-token rejection (401) and the key resolver is
\* never invoked for it.
C3_NonBearerGetsNoToken ==
    \A r \in Reqs :
        (pc[r] # "idle" /\ ~IsBearerHeader(hdr[r])) =>
            /\ ~InTrace(r, "ResolveKey")
            /\ Decided(r) =>
                 responses[r] = Rejection("Authentication error: No token provided")

\* C4: a decodable token whose header has no kid is rejected at PreCheck as
\* incomplete, before a key-set client is looked up or created and before any
\* key resolution.
C4_NoKidRejectedAtPreCheck ==
    \A r \in Reqs :
        (decoded[r].res = "ok" /\ decoded[r].kid = Absent) =>
            /\ ~InTrace(r, "GetClient")
            /\ ~InTrace(r, "ResolveKey")
            /\ client[r] = 0
            /\ pc[r] \notin {"PreCheck"} =>
                 /\ pc[r] = "done"
                 /\ responses[r] =
                      Rejection("Access Denied: Token missing issuer or subject")

\* C5: a decodable token whose claims lack a non-empty issuer or a non-empty
\* subject is rejected with 401 at PreCheck, and no client is looked up and no
\* key lookup attempted for that request.
C5_MissingIssSubRejected ==
    \A r \in Reqs :
        (decoded[r].res = "ok"
           /\ (hdr[r].tok.iss \in {Absent, ""} \/ hdr[r].tok.sub \in {Absent, ""})) =>
            /\ ~InTrace(r, "ResolveKey")
            /\ client[r] = 0 /\ key[r] = Absent /\ nexts[r] = 0
            /\ pc[r] \in {"PreCheck", "done"}
            /\ pc[r] = "done" =>
                 /\ trace[r] = <<"Extract", "Decode", "PreCheck">>
                 /\ Len(responses[r]) = 1 /\ responses[r][1].status = 401

C5_Witness ==
    \E r \in Reqs : /\ pc[r] = "done" /\ decoded[r].res = "ok"
                    /\ hdr[r].tok.iss \in Issuers /\ hdr[r].tok.sub = ""
                    /\ hdr[r].tok.kid = "k1" /\ hdr[r].tok.sig = "KA"

\* The three kinds of bad input, read off the header alone.
MissingTokenInput(h) ==
    \/ ~h.present
    \/ h.tok = EmptyTok /\ (h.scheme = NoScheme \/ BearerPrefix(h))
MalformedInput(h) ==
    /\ ~MissingTokenInput(h)
    /\ \/ h.tok.shape # "jwt"
       \/ ~(h.scheme = NoScheme \/ BearerPrefix(h))
IncompleteInput(h) ==
    /\ ~MissingTokenInput(h) /\ ~MalformedInput(h)
    /\ (h.tok.iss \in {Absent, ""} \/ h.tok.sub \in {Absent, ""})
BadInput(h) == MissingTokenInput(h) \/ MalformedInput(h) \/ IncompleteInput(h)
BadInputRejection(h) ==
    IF MissingTokenInput(h) THEN Rejection("Authentication error: No token provided")
    ELSE IF IncompleteInput(h)
         THEN Rejection("Access Denied: Token missing issuer or subject")
    ELSE IF h.tok.shape = "throws" /\ (h.scheme = NoScheme \/ BearerPrefix(h))
         THEN Rejection("Authentication error")
    ELSE Rejection("Access Denied: Invalid token format")

C7_IssuerBinding ==
    \A r \in Reqs :
        LET t == hdr[r].tok IN
        /\ (pc[r] # "idle" /\ t.shape = "jwt" /\ t.iss \in Issuers
              /\ t.sig \notin KeysOf(t.iss)
              /\ \E x \in Issuers \ {t.iss} : t.sig \in KeysOf(x)) =>
               /\ nexts[r] = 0
               /\ pc[r] \notin {"CheckAudience", "Accept", "Route"}
               /\ (pc[r] = "done" /\ key[r] # Absent) =>
                     responses[r] = Rejection("Access Denied: Invalid token")
        /\ client[r] # 0 => clients[client[r]] = decoded[r].payload.iss
        /\ key[r] # Absent => key[r] \in KeysOf(clients[client[r]])
        /\ verifyIss[r] # Absent => verifyIss[r] = clients[client[r]]

C7_Witness ==
    \E r \in Reqs : /\ pc[r] = "done" /\ hdr[r].tok.iss = "iss-b" /\ hdr[r].tok.sig = "KA"
                    /\ hdr[r].tok.kid = "k1" /\ key[r] = "KB" /\ verifyIss[r] = "iss-b"
                    /\ responses[r] = Rejection("Access Denied: Invalid token")

\* C8: once a token has passed signature verification and auth has decided,
\* the request passes if and only if 'media' is a member of the audience
\* claim taken as a set (a string is a one-element set, an absent audience is
\* empty); otherwise it gets the invalid-audience rejection with 401.
C8_AudienceIffMedia ==
    \A r \in Reqs :
        (Decided(r) /\ InTrace(r, "CheckAudience")) =>
            /\ nexts[r] = 1 <=> "media" \in AudSet(hdr[r].tok.aud)
            /\ "media" \notin AudSet(hdr[r].tok.aud) =>
                  responses[r] = Rejection("Access Denied: Invalid audience")

C8_Witness ==
    \E r \in Reqs : /\ pc[r] = "done" /\ nexts[r] = 1
                    /\ hdr[r].tok.aud = AudArr(<<"other", "media">>)

C8_WitnessReject ==
    \E r \in Reqs : /\ pc[r] = "done" /\ InTrace(r, "CheckAudience")
                    /\ hdr[r].tok.aud = AudArr(<<"other">>)

\* C9: for a request that passed the gate, x-user as the handlers see it is
\* the subject of the verified token, whatever x-user the client sent, and
\* every object key a handler builds starts with that subject.
C9_XUserIsVerifiedSubject ==
    \A r \in Reqs :
        nexts[r] > 0 =>
            /\ xuser[r] = verified[r].sub
            /\ xuser[r] = hdr[r].tok.sub
            /\ \A k \in objKeys[r] : k[1] = verified[r].sub

C9_Witness ==
    \E r \in Reqs : /\ pc[r] = "done" /\ xuserIn[r] = "mallory" /\ xuser[r] = "alice"
                    /\ Cardinality(objKeys[r]) = 2

\* C10: under every interleaving of concurrent requests at most one key-set
\* client is ever constructed for an issuer, it is the one in the cache, every
\* request of that issuer uses it, and a request is never suspended between
\* its cache lookup and its cache insertion.
ConstructedFor(i) == {c \in 1..Len(clients) : clients[c] = i}
C10_OneClientPerIssuer ==
    /\ \A i \in Issuers :
          /\ Cardinality(ConstructedFor(i)) <= 1
          /\ clientCache[i] # 0 => ConstructedFor(i) = {clientCache[i]}
    /\ \A r \in Reqs :
          /\ client[r] # 0 => client[r] = clientCache[decoded[r].payload.iss]
          /\ pc[r] \in {"Extract", "Decode", "PreCheck", "GetClient", "GetSigningKey"}
                => running = r

C10_Witness ==
    \E r1, r2 \in Reqs :
        /\ r1 # r2 /\ pc[r1] = "AwaitKey" /\ pc[r2] = "AwaitKey"
        /\ hdr[r1].tok.iss = hdr[r2].tok.iss
        /\ client[r1] # 0 /\ client[r1] = client[r2]

\* the key of the request's token cannot be resolved: the fetch fails, is
\* refused or times out, or the issuer's key set holds no matching key
KeyFailure(r) ==
    \/ fetch[r] \in {"down", "limited", "silent"}
    \/ /\ fetch[r] \in {"cached", "up"}
       /\ FindKey(decoded[r].payload.iss, decoded[r].kid) = "error"

\* C11: every failure inside auth ends in exactly one response with status
\* 401 and no call of next(): a request that ended without next() has one
\* reply, from auth, with status 401; auth never replies with another status
\* and never replies to a request it passed on; a failed key resolution
\* (key set unreachable, fetch refused or unanswered, unknown kid) and a throw
\* of the decoder both end in 401 'Authentication error'.
C11_FailuresEndIn401 ==
    \A r \in Reqs :
        /\ \A i \in 1..Len(responses[r]) :
              ByAuth(responses[r][i]) => responses[r][i].status = 401
        /\ nexts[r] > 0 => AuthReplies(r) = <<>>
        /\ (pc[r] = "done" /\ nexts[r] = 0) =>
              /\ Len(responses[r]) = 1
              /\ ByAuth(responses[r][1])
              /\ responses[r][1].status = 401
        /\ (fetch[r] # "none" /\ pc[r] # "AwaitKey" /\ KeyFailure(r)) =>
              /\ pc[r] = "done" /\ nexts[r] = 0
              /\ responses[r] = Rejection("Authentication error")
        /\ (InTrace(r, "Decode") /\ JwtDecode(token[r]).res = "throw") =>
              /\ pc[r] = "done" /\ nexts[r] = 0
              /\ responses[r] = Rejection("Authentication error")

\* a token naming a kid its issuer's key set does not hold was answered
C11_Witness ==
    \E r \in Reqs :
        /\ pc[r] = "done"
        /\ fetch[r] = "up"
        /\ decoded[r].payload.iss = "iss-b" /\ decoded[r].kid = "k2"
        /\ responses[r] = Rejection("Authentication error")

\* auth rejected r; the reply is what the client sees
Rejected(r) == pc[r] = "done" /\ nexts[r] = 0 /\ Len(responses[r]) = 1

\* C12: any two requests that auth rejected received the same response
\* (status and body), whatever the reason of each rejection; in particular a
\* bad signature and an unresolvable key are answered alike.
C12_RejectionsIndistinguishable ==
    \A r1, r2 \in Reqs :
        (Rejected(r1) /\ Rejected(r2)) =>
            /\ responses[r1][1].status = responses[r2][1].status
            /\ responses[r1][1].body = responses[r2][1].body

\* how many times the request asked its client for the signing key
Resolutions(r) == Cardinality({i \in 1..Len(trace[r]) : trace[r][i] = "ResolveKey"})

ValidToken(t) ==
    /\ t.shape = "jwt"
    /\ t.iss \in Issuers /\ t.sub \notin {Absent, ""}
    /\ FindKey(t.iss, t.kid) # "error" /\ t.sig = FindKey(t.iss, t.kid)
    /\ "media" \in AudSet(t.aud)

\* C14: the outcome of a request whose issuer's key set can be obtained
\* depends only on its token and that key set: whatever requests were
\* processed before it, it passes if and only if its token is valid.
C14_OutcomeFromTokenAndKeySet ==
    \A r \in Reqs :
        (Decided(r) /\ fetch[r] \in {"cached", "up", "limited"}) =>
            (nexts[r] > 0 <=> ValidToken(token[r].tok))

\* an earlier request resolved (issuer, kid) through a client built for issuer
ResolvedBefore(issuer, kid) ==
    \E c \in 1..Len(clients) : clients[c] = issuer /\ kid \in keyCache[c]

\* C15: when a request asks for the signing key of an (issuer, kid) that an
\* earlier request has resolved, it asks the client the issuer cache holds
\* since then, the key is served from that client's cache and no remote fetch
\* is issued.
C15_SecondResolutionNoFetch ==
    [][\A r \in Reqs :
          (/\ fetch[r] = "none" /\ fetch'[r] # "none"
           /\ ResolvedBefore(decoded[r].payload.iss, decoded[r].kid)) =>
              /\ fetch'[r] = "cached"
              /\ client[r] = clientCache[decoded[r].payload.iss]
              /\ decoded[r].kid \in keyCache[client[r]]
              /\ used' = used]_vars

\* a request passed with a key served from the client's cache
C15_Witness ==
    \E r \in Reqs :
        /\ fetch[r] = "cached"
        /\ nexts[r] > 0
        /\ client[r] = clientCache[decoded[r].payload.iss]
        /\ ResolvedBefore(decoded[r].payload.iss, decoded[r].kid)

\* the steps of auth in the order of the code
StepOrder == <<"Extract", "Decode", "PreCheck", "GetClient", "ResolveKey",
               "VerifySignature", "CheckAudience", "Accept">>

\* C16: the steps a request has run are an initial part of the order
\* Extract, Decode, PreCheck, GetClient, ResolveKey, VerifySignature,
\* CheckAudience, Accept, and once auth has rejected the request no further
\* step runs; a token that does not decode is rejected with 401 and no client
\* is looked up and no key asked for; the signature is verified only with a
\* resolved key of the issuer; the audience is checked only on the payload the
\* successful verification returned.
C16_StepsInOrder ==
    \A r \in Reqs :
        /\ Len(trace[r]) <= Len(StepOrder)
        /\ trace[r] = SubSeq(StepOrder, 1, Len(trace[r]))
        /\ AuthReplies(r) # <<>> => pc[r] = "done" /\ ~InTrace(r, "Accept")
        /\ (InTrace(r, "Decode") /\ JwtDecode(token[r]).res # "ok") =>
              /\ pc[r] = "done"
              /\ Len(responses[r]) = 1 /\ responses[r][1].status = 401
              /\ trace[r] = <<"Extract", "Decode">>
              /\ client[r] = 0 /\ fetch[r] = "none" /\ key[r] = Absent
        /\ InTrace(r, "VerifySignature") =>
              /\ fetch[r] \in {"cached", "up"}
              /\ key[r] \in KeysOf(decoded[r].payload.iss)
        /\ InTrace(r, "CheckAudience") =>
              /\ token[r].tok.sig = key[r]
              /\ verified[r] = decoded[r].payload
              /\ verified[r] # NoPayload

\* a token that does not decode was rejected right after the decode step
C16_Witness ==
    \E r \in Reqs :
        /\ pc[r] = "done"
        /\ JwtDecode(token[r]).res = "null"
        /\ token[r].def /\ token[r].tok.shape = "garbage"
        /\ trace[r] = <<"Extract", "Decode">>
        /\ responses[r] = Rejection("Access Denied: Invalid token format")

\* the issuers the cache has an entry for
Cached == {i \in DOMAIN clientCache : clientCache[i] # 0}

\* a request that has passed PreCheck and is about to look its client up
AboutToCache(i) ==
    \E r \in Reqs : running = r /\ pc[r] = "GetClient" /\ decoded[r].payload.iss = i

\* C17: the issuer cache holds an entry exactly for the issuers of the
\* requests that passed PreCheck (the entry appears in the same synchronous
\* run in which the request passes PreCheck), every entry is a client built for
\* its issuer, and an entry is never removed or replaced by another client.
C17_CacheIsIssuersSeen ==
    /\ [](/\ Cached \subseteq seenIssuers
          /\ \A i \in seenIssuers : i \in Cached \/ AboutToCache(i)
          /\ \A i \in Cached : /\ clientCache[i] \in 1..Len(clients)
                               /\ clients[clientCache[i]] = i)
    /\ [][\A i \in Cached : clientCache'[i] = clientCache[i]]_vars

\* both issuers are cached and a request that was rejected after PreCheck
\* has left its issuer's entry behind
C17_Witness ==
    /\ Cached = Issuers
    /\ \E r \in Reqs :
          /\ pc[r] = "done" /\ nexts[r] = 0
          /\ InTrace(r, "PreCheck") /\ InTrace(r, "VerifySignature")
          /\ client[r] = clientCache[decoded[r].payload.iss]

\* C18: every object written to storage by an upload route has a content
\* type that is in allowedMimeTypes.
C18_StoredTypesAllowed ==
    \A r \in Reqs : \A o \in stored[r] : o.type \in allowedMimeTypes

\* an upload route has answered the request
UploadAnswered(r) ==
    /\ pc[r] = "done"
    /\ RouteReplies(r) # <<>>
    /\ RouteReplies(r)[1].body # "OK"

\* C19: when an upload route has answered a request, none of the temporary
\* files received for it is left in uploads/.
C19_TempFilesUnlinked ==
    \A r \in Reqs : UploadAnswered(r) => temp[r] = {}
====
